---- MODULE Spec2Model ----
(***************************************************************************)
(* Model of the jsonfile item store (store/jsonfile/store.go): the         *)
(* in-memory record list and id map, the uniqueness index, the whole-file  *)
(* persistence and the reload of a staging file by the file watcher.       *)
(*                                                                         *)
(* Every exported operation runs under the store mutex, so one action is   *)
(* one complete call; the last specification takes the calls apart into    *)
(* their steps under the mutex.                                            *)
(***************************************************************************)
EXTENDS Integers, Sequences, FiniteSets, TLC

\* ---------------------------------------------------------------- bounds
\* Number of distinct non-empty ids the id generator and callers draw from.
NumIDs == 2
\* Number of distinct non-empty names an item can carry.
NumNames == 2
\* Largest revision number of an item (user.Rev).
MaxRev == 2
\* Longest record list the store is driven to by Add.
MaxItems == 2
\* Longest array an external publisher writes to the staging file.
MaxLoad == 1
\* Number of times the external publisher writes the staging file.
MaxPublish == 1
\* Entries of a file in the specification of loading alone.
MaxLongLoad == 2
\* Staging files published in the specification of repeated reloads.
MaxRepublish == 2

\* ------------------------------------------------------------------ data
\* Ids are strings; id k stands for the k-th non-empty id, 0 for "".
EmptyID == 0
IDs == 1..NumIDs
AnyID == IDs \cup {EmptyID}

\* user.Name: name n stands for the n-th non-empty name, 0 for "".
EmptyName == 0
Names == 1..NumNames

\* A nil items.IItem interface value (also JSON null / absent "item").
\* Real revisions start at 1, so rev 0 marks nil.
NilItem == [name |-> EmptyName, rev |-> 0]
\* Every value of the item type user{Rev, Name}.
Items == [name : Names \cup {EmptyName}, rev : 1..MaxRev]
AnyItem == Items \cup {NilItem}

\* A goroutine that has made no call.
NoCall == [op |-> "none", id |-> EmptyID, item |-> NilItem, err |-> "ok"]

\* The empty Go map.
EmptyMap == [x \in {} |-> 0]

\* Outcomes of the operating-system calls made by updateFile: every call
\* succeeds, os.Create fails, f.Write fails after os.Create truncated the
\* file.
IOOutcomes == {"ok", "create", "write"}

VARIABLES
    withKeys,       \* the item type implements IItemWithUniqueKeys (userUniq)
    watching,       \* the store was made by NewWithReload
    itemsFromFile,  \* store.itemsFromFile: sequence of fileItem
    itemByID,       \* store.itemByID: map id -> item
    indexSet,       \* store.indexSet.index: map field -> (value -> id)
    file,           \* content of the primary file s.filename
    loadfile,       \* content of the staging file given to watchFile
    errfile,        \* content of the error-marker file
    changing,       \* the watcher's changing flag (a change was seen)
    res,            \* the last completed call and what it returned
    notified,       \* the lifecycle hooks that call invoked, in order
    published,      \* how often the staging file has been written
    now,            \* time.Now(), in seconds since the watcher started
    modTime,        \* os.Stat(filename).ModTime() of the staging file
    lastModTime,    \* the watcher's lastModTime
    nextPoll,       \* when the watcher's time.Sleep(time.Second) ends
    fresh,          \* a publisher wrote the staging file since the last
                    \* reload attempt
    mutex,          \* store.mutex: the goroutine holding it, NoHolder if free
    pc,             \* where each goroutine is in its call
    call,           \* each goroutine's call: operation, arguments, result
    scan,           \* a Find running without the mutex: what it has read
                    \* of s.itemsFromFile and what it returned
    loading         \* readFile's locals: the content it decoded, the new
                    \* list, map and index, the hooks still to call

\* The watcher's clock and what it keeps about the staging file's ModTime.
timers == <<now, modTime, lastModTime, nextPoll, fresh>>

vars == <<withKeys, watching, itemsFromFile, itemByID, indexSet, file,
          loadfile, errfile, changing, res, notified, published, now,
          modTime, lastModTime, nextPoll, fresh, mutex, pc, call, scan,
          loading>>

\* The mutex and the goroutines calling the store: the watcher and the
\* callers of Add, Upd, Del and Get.
locks == <<mutex, pc, call>>

NumCallers == 2
Watcher == 0
Callers == 1..NumCallers
Goroutines == {Watcher} \cup Callers
NoHolder == -1

\* No Find is running: nothing read, nothing returned. Unread marks a word
\* of the slice header that the Find has not loaded yet.
Unread == -1
NoScan == [pc |-> "idle", size |-> 0, ptr |-> <<>>, ptrRead |-> FALSE,
           len |-> Unread, seen |-> {}, out |-> <<>>, fault |-> FALSE,
           finds |-> 0]

\* ----------------------------------------------------------------- files
\* A file is missing, zero bytes long, not decodable as a JSON array, or a
\* JSON array of {"_id": .., "item": ..} objects.
MissingFile == [kind |-> "missing", items |-> <<>>]
EmptyFile == [kind |-> "empty", items |-> <<>>]
GarbageFile == [kind |-> "garbage", items |-> <<>>]
JSONFile(entries) == [kind |-> "json", items |-> entries]

\* fileItem and its JSON object.
FileItem(id, item) == [ID |-> id, Item |-> item]
JSONEntry(id, item) == [id |-> id, item |-> item]

\* json.MarshalIndent of a []fileItem.
Marshal(list) ==
    JSONFile([k \in 1..Len(list) |-> JSONEntry(list[k].ID, list[k].Item)])

\* ------------------------------------------------------- item capabilities
\* user.Validate: the name must be given.
Validate(item) == IF item.name = EmptyName THEN "invalid" ELSE "ok"

\* userUniq.Keys: the name is the one unique field.
Keys(item) == [n \in {"name"} |-> item.name]

\* ------------------------------------------------------------ Go map helpers
\* A faulty map store that leaves every entry referring to the value stored
\* last (the entries share one variable); C5 tells it from MapSet.
MapSetShared(m, k, v) == [x \in DOMAIN m \cup {k} |-> v]

MapSet(m, k, v) == [x \in DOMAIN m \cup {k} |-> IF x = k THEN v ELSE m[x]]
MapDel(m, k) == [x \in DOMAIN m \ {k} |-> m[x]]

\* -------------------------------------------------------------- indexSet
\* indexSet.CheckUniqueness: an indexed value is a duplicate when the call
\* has no id (a new item) or the value is indexed under another id.
\* A faulty uniqueness check that takes every indexed value for a duplicate,
\* whatever id it is indexed under; C7 tells it from CheckUniqueness.
CheckUniquenessOfOthers(idx, id, i) ==
    IF /\ withKeys
       /\ \E n \in DOMAIN Keys(i) :
            /\ n \in DOMAIN idx
            /\ Keys(i)[n] \in DOMAIN idx[n]
    THEN "duplicate"
    ELSE "ok"

CheckUniqueness(idx, id, i) ==
    IF /\ withKeys
       /\ \E n \in DOMAIN Keys(i) :
            /\ n \in DOMAIN idx
            /\ Keys(i)[n] \in DOMAIN idx[n]
            /\ (id = EmptyID \/ idx[n][Keys(i)[n]] # id)
    THEN "duplicate"
    ELSE "ok"

\* A faulty AddToIndex that indexes the value under the new id without
\* looking for another id under it; C38 tells it from AddToIndex.
AddToIndexUnchecked(idx, id, i) ==
    IF ~withKeys
    THEN [err |-> "ok", index |-> idx]
    ELSE [err |-> "ok",
          index |-> [n \in DOMAIN idx \cup DOMAIN Keys(i) |->
                       IF n \in DOMAIN Keys(i)
                       THEN MapSet(IF n \in DOMAIN idx THEN idx[n] ELSE EmptyMap,
                                   Keys(i)[n], id)
                       ELSE idx[n]]]

\* indexSet.AddToIndex: first creates the missing per-field indexes and
\* checks every key, then stores every key; a key held by another id fails
\* the call before anything is stored.
AddToIndex(idx, id, i) ==
    IF ~withKeys
    THEN [err |-> "ok", index |-> idx]
    ELSE LET keys == Keys(i)
             created == [n \in DOMAIN idx \cup DOMAIN keys |->
                            IF n \in DOMAIN idx THEN idx[n] ELSE EmptyMap]
             dup == \E n \in DOMAIN keys :
                        /\ keys[n] \in DOMAIN created[n]
                        /\ created[n][keys[n]] # id
         IN  IF dup
             THEN [err |-> "duplicate", index |-> created]
             ELSE [err |-> "ok",
                   index |-> [n \in DOMAIN created |->
                                IF n \in DOMAIN keys
                                THEN MapSet(created[n], keys[n], id)
                                ELSE created[n]]]

\* indexSet.DelFromIndex: removes the item's values from the indexes that
\* exist, whatever id they are indexed under.
DelFromIndex(idx, id, i) ==
    IF ~withKeys
    THEN idx
    ELSE LET keys == Keys(i)
         IN  [n \in DOMAIN idx |->
                IF n \in DOMAIN keys THEN MapDel(idx[n], keys[n]) ELSE idx[n]]

\* ------------------------------------------------------------ persistence
\* store.updateFile: os.Create truncates the primary file, f.Write writes
\* the marshalled list, and only then s.itemsFromFile is replaced.
\* A faulty updateFile that marshals the list the store still holds instead
\* of the updated one; C3 tells it from updateFile.
updateFileStale(updatedItems, io) ==
    CASE io = "create" ->
            [err |-> "io", file |-> file, itemsFromFile |-> itemsFromFile]
      [] io = "write" ->
            [err |-> "io", file |-> EmptyFile, itemsFromFile |-> itemsFromFile]
      [] OTHER ->
            [err |-> "ok", file |-> Marshal(itemsFromFile),
             itemsFromFile |-> updatedItems]

\* A faulty updateFile that replaces the store's list before the file is
\* written; C15 tells it from updateFile.
updateFileEager(updatedItems, io) ==
    CASE io = "create" ->
            [err |-> "io", file |-> file, itemsFromFile |-> updatedItems]
      [] io = "write" ->
            [err |-> "io", file |-> EmptyFile, itemsFromFile |-> updatedItems]
      [] OTHER ->
            [err |-> "ok", file |-> Marshal(updatedItems),
             itemsFromFile |-> updatedItems]

updateFile(updatedItems, io) ==
    CASE io = "create" ->
            [err |-> "io", file |-> file, itemsFromFile |-> itemsFromFile]
      [] io = "write" ->
            [err |-> "io", file |-> EmptyFile, itemsFromFile |-> itemsFromFile]
      [] OTHER ->
            [err |-> "ok", file |-> Marshal(updatedItems),
             itemsFromFile |-> updatedItems]

\* ------------------------------------------------------- lifecycle hooks
NotifyNew(id, item) == [hook |-> "new", id |-> id, item |-> item, old |-> NilItem]
\* A faulty NotifyUpd call that hands the hook the new item instead of the
\* one it replaced; C18 tells it from NotifyUpd.
NotifyUpdSelf(id, item, old) == [hook |-> "upd", id |-> id, item |-> item, old |-> item]
NotifyUpd(id, item, old) == [hook |-> "upd", id |-> id, item |-> item, old |-> old]
NotifyDel(id, item) == [hook |-> "del", id |-> id, item |-> item, old |-> NilItem]

\* What a call returned: the operation, the id it returned (Add) or was
\* given (Upd, Del), and the error ("ok" for nil).
Result(op, id, err) == [op |-> op, id |-> id, err |-> err]

\* A call that returns an error before it changed anything.
Rejected(op, id, err) ==
    /\ res' = Result(op, id, err)
    /\ notified' = <<>>
    /\ UNCHANGED <<withKeys, watching, itemsFromFile, itemByID, indexSet,
                   file, loadfile, errfile, changing, published>>

\* ------------------------------------------------------------- store.Add
\* item: the argument; newID: what idGen.NewID returns; io: the outcome of
\* the file write.
\* Faulty checks of Add that leave out item.Validate; C4 tells them from
\* AddChecks.
AddChecksUnvalidated(item, newID) ==
    IF item = NilItem THEN "nil"
    ELSE IF CheckUniqueness(indexSet, EmptyID, item) # "ok" THEN "duplicate"
    ELSE IF newID \in DOMAIN itemByID THEN "collision"
    ELSE "ok"

\* The checks of Add before it changes anything, in the order of the code.
AddChecks(item, newID) ==
    IF item = NilItem THEN "nil"
    ELSE IF Validate(item) # "ok" THEN "invalid"
    ELSE IF CheckUniqueness(indexSet, EmptyID, item) # "ok" THEN "duplicate"
    ELSE IF newID \in DOMAIN itemByID THEN "collision"
    ELSE "ok"

\* What Add does once its checks have passed.
AddCommit(item, newID, io) ==
    LET w == updateFile(Append(itemsFromFile, FileItem(newID, item)), io)
    IN  IF w.err # "ok"
        THEN /\ res' = Result("Add", EmptyID, "io")
             /\ notified' = <<>>
             /\ file' = w.file
             /\ itemsFromFile' = w.itemsFromFile
             /\ UNCHANGED <<withKeys, watching, itemByID, indexSet,
                            loadfile, errfile, changing, published>>
        ELSE /\ file' = w.file
             /\ itemsFromFile' = w.itemsFromFile
             /\ itemByID' = MapSet(itemByID, newID, item)
             /\ indexSet' = AddToIndex(indexSet, newID, item).index
             /\ notified' = <<NotifyNew(newID, item)>>
             /\ res' = Result("Add", newID, "ok")
             /\ UNCHANGED <<withKeys, watching, loadfile, errfile,
                            changing, published>>

Add(item, newID, io) ==
    /\ Len(itemsFromFile) < MaxItems
    /\ IF AddChecks(item, newID) # "ok"
       THEN Rejected("Add", EmptyID, AddChecks(item, newID))
       ELSE AddCommit(item, newID, io)

\* ------------------------------------------------------------- store.Upd
\* The position of the first record with the given id, 0 when there is none.
FirstIndex(list, id) ==
    IF \E k \in 1..Len(list) : list[k].ID = id
    THEN CHOOSE k \in 1..Len(list) :
            /\ list[k].ID = id
            /\ \A j \in 1..(k - 1) : list[j].ID # id
    ELSE 0

\* A faulty replacement that takes the record out of the list and appends
\* the new one at the end; C12 tells it from Replaced.
ReplacedAtEnd(list, k, item) ==
    Append(SubSeq(list, 1, k - 1) \o SubSeq(list, k + 1, Len(list)),
           [ID |-> list[k].ID, Item |-> item])

\* The copy of the list with the item of record k replaced.
Replaced(list, k, item) == [list EXCEPT ![k].Item = item]

\* The checks of Upd before it changes anything, in the order of the code.
UpdChecks(id, item) ==
    IF item = NilItem THEN "nil"
    ELSE IF Validate(item) # "ok" THEN "invalid"
    ELSE IF CheckUniqueness(indexSet, id, item) # "ok" THEN "duplicate"
    ELSE IF FirstIndex(itemsFromFile, id) = 0 THEN "notfound"
    ELSE "ok"

\* What Upd does once its checks have passed: the loop that finds the
\* record, the file write, the map and index update and the notification.
UpdCommit(id, item, io) ==
    IF FirstIndex(itemsFromFile, id) = 0 THEN Rejected("Upd", id, "notfound")
    ELSE LET updIndex == FirstIndex(itemsFromFile, id)
         IN       LET oldItem == itemsFromFile[updIndex].Item
                      updatedItemsFromFile ==
                          Replaced(itemsFromFile, updIndex, item)
                      w == updateFile(updatedItemsFromFile, io)
                  IN  IF w.err # "ok"
                      THEN /\ res' = Result("Upd", id, "io")
                           /\ notified' = <<>>
                           /\ file' = w.file
                           /\ itemsFromFile' = w.itemsFromFile
                           /\ UNCHANGED <<withKeys, watching, itemByID, indexSet,
                                          loadfile, errfile, changing, published>>
                      ELSE /\ file' = w.file
                           /\ itemsFromFile' = w.itemsFromFile
                           /\ itemByID' = MapSet(itemByID, id, item)
                           /\ indexSet' =
                                AddToIndex(DelFromIndex(indexSet, id, oldItem),
                                           id, item).index
                           /\ notified' = <<NotifyUpd(id, item, oldItem)>>
                           /\ res' = Result("Upd", id, "ok")
                           /\ UNCHANGED <<withKeys, watching, loadfile, errfile,
                                          changing, published>>

Upd(id, item, io) ==
    IF UpdChecks(id, item) # "ok" THEN Rejected("Upd", id, UpdChecks(id, item))
    ELSE UpdCommit(id, item, io)

\* ------------------------------------------------------------- store.Del
\* The list without the records of the given id.
Without(list, id) == SelectSeq(list, LAMBDA fi : fi.ID # id)

\* The item of the last record with the given id (the loop overwrites
\* deletedItem on every match); NilItem when there is none.
LastItem(list, id) ==
    IF \E k \in 1..Len(list) : list[k].ID = id
    THEN list[CHOOSE k \in 1..Len(list) :
                /\ list[k].ID = id
                /\ \A j \in (k + 1)..Len(list) : list[j].ID # id].Item
    ELSE NilItem

\* A faulty Del of an id that is not in the list, which reports the id as
\* not found; C9 tells it from DelAbsent.
DelAbsentFails(id) == Rejected("Del", id, "notfound")

\* Del of an id that is not in the list: nothing is written and nil is
\* returned.
DelAbsent(id) == Rejected("Del", id, "ok")

Del(id, io) ==
    LET updatedItemsFromFile == Without(itemsFromFile, id)
        deletedItem == LastItem(itemsFromFile, id)
    IN  IF deletedItem = NilItem THEN DelAbsent(id)
        ELSE LET w == updateFile(updatedItemsFromFile, io)
             IN  IF w.err # "ok"
                 THEN /\ res' = Result("Del", id, "io")
                      /\ notified' = <<>>
                      /\ file' = w.file
                      /\ itemsFromFile' = w.itemsFromFile
                      /\ UNCHANGED <<withKeys, watching, itemByID, indexSet,
                                     loadfile, errfile, changing, published>>
                 ELSE /\ file' = w.file
                      /\ itemsFromFile' = w.itemsFromFile
                      /\ itemByID' = MapDel(itemByID, id)
                      /\ indexSet' = DelFromIndex(indexSet, id, deletedItem)
                      /\ notified' = <<NotifyDel(id, deletedItem)>>
                      /\ res' = Result("Del", id, "ok")
                      /\ UNCHANGED <<withKeys, watching, loadfile, errfile,
                                     changing, published>>

\* ------------------------------------------------------------- store.Get
\* The lookup of Get in the id map byID.
Lookup(byID, id) ==
    IF id \in DOMAIN byID
    THEN [item |-> byID[id], err |-> "ok"]
    ELSE [item |-> NilItem, err |-> "notfound"]

Get(id) == Lookup(itemByID, id)

\* -------------------------------------------------------- store.readFile
\* The decode loop of readFile over the entries of a JSON array, from entry
\* k on: builds a new list, id map and index set and stops at the first bad
\* entry.
\* A faulty decode loop without the check for an id seen earlier in the
\* file: the later entry replaces the map entry; C19 tells it from
\* LoadEntries.
RECURSIVE LoadEntriesOverwriting(_, _, _, _, _)
LoadEntriesOverwriting(entries, k, list, byID, idx) ==
    IF k > Len(entries)
    THEN [err |-> "ok", list |-> list, byID |-> byID, index |-> idx]
    ELSE LET id == entries[k].id
             item == entries[k].item
             failed(e) == [err |-> e, list |-> list, byID |-> byID, index |-> idx]
         IN  IF id = EmptyID THEN failed("missingid")
             ELSE IF item = NilItem THEN failed("noitem")
             ELSE IF Validate(item) # "ok" THEN failed("invalid")
             ELSE LET a == AddToIndex(idx, id, item)
                  IN  IF a.err # "ok" THEN failed("duplicate")
                      ELSE LoadEntriesOverwriting(entries, k + 1,
                                       Append(list, FileItem(id, item)),
                                       MapSet(byID, id, item), a.index)

RECURSIVE LoadEntries(_, _, _, _, _)
LoadEntries(entries, k, list, byID, idx) ==
    IF k > Len(entries)
    THEN [err |-> "ok", list |-> list, byID |-> byID, index |-> idx]
    ELSE LET id == entries[k].id
             item == entries[k].item
             failed(e) == [err |-> e, list |-> list, byID |-> byID, index |-> idx]
         IN  IF id = EmptyID THEN failed("missingid")
             ELSE IF id \in DOMAIN byID THEN failed("duplicateid")
             ELSE IF item = NilItem THEN failed("noitem")
             ELSE IF Validate(item) # "ok" THEN failed("invalid")
             ELSE LET a == AddToIndex(idx, id, item)
                  IN  IF a.err # "ok" THEN failed("duplicate")
                      ELSE LoadEntries(entries, k + 1,
                                       Append(list, FileItem(id, item)),
                                       MapSet(byID, id, item), a.index)

\* Faulty notifications of a load that leave out the second loop, the one
\* over the new dataset; C37 tells them from LoadNotifications.
LoadNotificationsOfOld(old, new, oldOrder, newOrder) ==
    [k \in 1..Len(oldOrder) |->
        IF oldOrder[k] \in DOMAIN new
        THEN NotifyUpd(oldOrder[k], new[oldOrder[k]], old[oldOrder[k]])
        ELSE NotifyDel(oldOrder[k], old[oldOrder[k]])]

\* The notifications of readFile: for every old id, in the iteration order
\* oldOrder of the old map, NotifyUpd on the new item or NotifyDel on the
\* old one; then for every new id that was not held, in the iteration order
\* newOrder of the new map, NotifyNew.
LoadNotifications(old, new, oldOrder, newOrder) ==
    LET first == [k \in 1..Len(oldOrder) |->
                    IF oldOrder[k] \in DOMAIN new
                    THEN NotifyUpd(oldOrder[k], new[oldOrder[k]], old[oldOrder[k]])
                    ELSE NotifyDel(oldOrder[k], old[oldOrder[k]])]
        added == SelectSeq(newOrder, LAMBDA id : id \notin DOMAIN old)
        next == [k \in 1..Len(added) |-> NotifyNew(added[k], new[added[k]])]
    IN  first \o next

\* The orders in which a Go range statement can visit the keys of a map.
Orders(m) ==
    {o \in [1..Cardinality(DOMAIN m) -> DOMAIN m] :
        \A j, k \in DOMAIN o : j # k => o[j] # o[k]}

\* store.readFile on a file with content f, given the store's list, id map
\* and index set. io = "fail" makes the one operating-system call it needs
\* (os.Create of a missing file, os.Open of an existing one) fail.
\* Returns the error, the file's content afterwards, the store's new list,
\* id map and index set, and the notifications fired.
readFile(f, list, byID, idx, io, oldOrder, newOrder) ==
    LET same(e, g) == [err |-> e, file |-> g, list |-> list, byID |-> byID,
                       index |-> idx, notified |-> <<>>]
        cleared(g) == [err |-> "ok", file |-> g, list |-> list,
                       byID |-> EmptyMap, index |-> idx, notified |-> <<>>]
    IN  IF f.kind = "missing"
        THEN IF io = "fail" THEN same("io", f) ELSE cleared(EmptyFile)
        ELSE IF io = "fail" THEN same("io", f)
        ELSE IF f.kind = "garbage" THEN same("decode", f)
        ELSE IF f.kind = "empty" THEN cleared(f)
        ELSE LET l == LoadEntries(f.items, 1, <<>>, EmptyMap, EmptyMap)
             IN  IF l.err # "ok" THEN same(l.err, f)
                 ELSE [err |-> "ok", file |-> f, list |-> l.list,
                       byID |-> l.byID, index |-> l.index,
                       notified |-> LoadNotifications(byID, l.byID,
                                                      oldOrder, newOrder)]

\* The id map the decode loop builds from f (used for its iteration order).
LoadedByID(f) ==
    IF f.kind = "json"
    THEN LoadEntries(f.items, 1, <<>>, EmptyMap, EmptyMap).byID
    ELSE EmptyMap

\* ------------------------------------------------------- file contents
BoundedSeq(S, n) == UNION {[1..k -> S] : k \in 0..n}

\* What a file written from outside the store can hold.
FilesUpTo(n) ==
    {EmptyFile, GarbageFile} \cup
    {JSONFile(e) : e \in BoundedSeq([id : AnyID, item : AnyItem], n)}

FileContents == FilesUpTo(MaxLoad)

\* What io.Copy leaves in the destination.
Copied(from, to, io) ==
    CASE io = "create" -> to
      [] io = "write" -> EmptyFile
      [] OTHER -> from

\* ------------------------------------------------------------ the store
\* newStore returned a store (a failed construction returns none).
Alive == ~(res.op = "New" /\ res.err # "ok")

\* readFile has nothing in hand: no content decoded, no new dataset, no
\* hook to call.
NoLoad == [file |-> MissingFile, list |-> <<>>, byID |-> EmptyMap,
           index |-> EmptyMap, pending |-> <<>>, fired |-> <<>>]

NoErrorFile == "none"

\* newStore: the store after readFile of the primary file f0 into the empty
\* store. The watcher is exercised with the item type that declares keys.
\* newStore over a primary file drawn from files, with a staging file drawn
\* from staging lying beside it since before the store was made.
newStoreBeside(files, staging) ==
    /\ \E f0 \in files, io \in {"ok", "fail"} :
         \E newOrder \in Orders(LoadedByID(f0)) :
            LET r == readFile(f0, <<>>, EmptyMap, EmptyMap, io, <<>>, newOrder)
            IN  /\ itemsFromFile = r.list
                /\ itemByID = r.byID
                /\ indexSet = r.index
                /\ file = r.file
                /\ notified = r.notified
                /\ res = Result("New", EmptyID, r.err)
    /\ loadfile \in staging
    /\ errfile = NoErrorFile
    /\ changing = FALSE
    /\ published = 0
    /\ now = 0
    /\ modTime = 0
    /\ lastModTime = 0
    /\ nextPoll = 0
    /\ fresh = FALSE
    /\ mutex = NoHolder
    /\ pc = [g \in Goroutines |-> "idle"]
    /\ call = [g \in Goroutines |-> NoCall]
    /\ scan = NoScan
    /\ loading = NoLoad

newStore(files) == newStoreBeside(files, {MissingFile})

Init ==
    /\ withKeys \in BOOLEAN
    /\ watching \in BOOLEAN
    /\ watching => withKeys
    /\ newStore(FileContents \cup {MissingFile})

AddCall ==
    /\ Alive
    /\ \E item \in AnyItem, newID \in IDs, io \in IOOutcomes :
         Add(item, newID, io)

UpdCall ==
    /\ Alive
    /\ \E id \in IDs, item \in AnyItem, io \in IOOutcomes : Upd(id, item, io)

DelCall ==
    /\ Alive
    /\ \E id \in IDs, io \in IOOutcomes : Del(id, io)

\* ----------------------------------------------------- the staging file
\* An external publisher writes the staging file, and the watcher's next
\* poll finds its ModTime after lastModTime and sets changing.
PublishUpTo(files, n) ==
    /\ Alive
    /\ watching
    /\ published < n
    /\ published' = published + 1
    /\ \E f \in files : loadfile' = f
    /\ changing' = TRUE
    /\ res' = Result("Publish", EmptyID, "ok")
    /\ notified' = <<>>
    /\ UNCHANGED <<withKeys, watching, itemsFromFile, itemByID, indexSet,
                   file, errfile>>

PublishFrom(files) == PublishUpTo(files, MaxPublish)

Publish == PublishFrom(FileContents)

\* An external publisher removes the staging file; os.Stat then fails and
\* the watcher keeps its flag.
Remove ==
    /\ Alive
    /\ watching
    /\ loadfile # MissingFile
    /\ loadfile' = MissingFile
    /\ res' = Result("Remove", EmptyID, "ok")
    /\ notified' = <<>>
    /\ UNCHANGED <<withKeys, watching, itemsFromFile, itemByID, indexSet,
                   file, errfile, changing, published>>

\* ------------------------------------------------------ store.watchFile
\* What os.Create or os.Remove of the error file can do.
MarkerOutcomes == {"ok", "fail"}

\* A faulty handling of a failed readFile that never writes the error
\* file; C22 tells it from MarkerWritten.
MarkerNotWritten(old, reason, mio) == old

\* A faulty handling of a successful readFile that never removes the error
\* file; C25 tells it from MarkerRemoved.
MarkerKept(old, mio) == old

\* The error file after a failed readFile: created with the reason, or left
\* as it was when os.Create fails (which is only logged).
MarkerWritten(old, reason, mio) == IF mio = "ok" THEN reason ELSE old

\* The error file after a successful readFile: removed, or left as it was
\* when os.Remove fails (its error is dropped).
MarkerRemoved(old, mio) == IF mio = "ok" THEN NoErrorFile ELSE old

\* processModifiedFile: mio is the outcome of creating or removing the
\* error file, cio the outcome of copying the staging file over the primary
\* file; the staging file can be opened (or created).
processModifiedFile(mio, cio, oldOrder, newOrder) ==
    LET r == readFile(loadfile, itemsFromFile, itemByID, indexSet, "ok",
                      oldOrder, newOrder)
    IN  /\ res' = Result("Reload", EmptyID, r.err)
        /\ loadfile' = r.file
        /\ IF r.err # "ok"
           THEN /\ errfile' = MarkerWritten(errfile, r.err, mio)
                /\ notified' = <<>>
                /\ UNCHANGED <<itemsFromFile, itemByID, indexSet, file>>
           ELSE /\ errfile' = MarkerRemoved(errfile, mio)
                /\ itemsFromFile' = r.list
                /\ itemByID' = r.byID
                /\ indexSet' = r.index
                /\ notified' = r.notified
                /\ file' = Copied(r.file, file, cio)

\* A poll in the changing state after the staging file has been left alone
\* for the quiescence window. A staging file that readFile itself created
\* has a new ModTime, which the next poll finds.
Reload ==
    /\ Alive
    /\ watching
    /\ changing
    /\ \E mio \in MarkerOutcomes, cio \in IOOutcomes :
         \E oldOrder \in Orders(itemByID),
            newOrder \in Orders(LoadedByID(loadfile)) :
            processModifiedFile(mio, cio, oldOrder, newOrder)
    /\ changing' = (loadfile' # loadfile)
    /\ UNCHANGED <<withKeys, watching, published>>

Next ==
    \/ AddCall /\ UNCHANGED <<timers, locks, scan, loading>>
    \/ UpdCall /\ UNCHANGED <<timers, locks, scan, loading>>
    \/ DelCall /\ UNCHANGED <<timers, locks, scan, loading>>
    \/ Publish /\ UNCHANGED <<timers, locks, scan, loading>>
    \/ Remove /\ UNCHANGED <<timers, locks, scan, loading>>
    \/ Reload /\ UNCHANGED <<timers, locks, scan, loading>>

Spec == Init /\ [][Next]_vars

\* ------------------------------------------------- loading on its own
\* A store with a watcher that is only loaded: constructed on a file of up
\* to MaxLongLoad entries and reloaded from such a file.
LoadInit ==
    /\ withKeys = TRUE
    /\ watching = TRUE
    /\ newStore(FilesUpTo(MaxLongLoad) \cup {MissingFile})

PublishLong == PublishFrom(FilesUpTo(MaxLongLoad))

LoadNext ==
    \/ PublishLong /\ UNCHANGED <<timers, locks, scan, loading>>
    \/ Remove /\ UNCHANGED <<timers, locks, scan, loading>>
    \/ Reload /\ UNCHANGED <<timers, locks, scan, loading>>

LoadSpec == LoadInit /\ [][LoadNext]_vars

\* ------------------------------------------------- reloading repeatedly
\* A store with a watcher that is only reloaded, from up to MaxRepublish
\* staging files in a row.
ReloadInit ==
    /\ withKeys = TRUE
    /\ watching = TRUE
    /\ newStore(FileContents \cup {MissingFile})

PublishAgain == PublishUpTo(FileContents, MaxRepublish)

ReloadNext ==
    \/ PublishAgain /\ UNCHANGED <<timers, locks, scan, loading>>
    \/ Remove /\ UNCHANGED <<timers, locks, scan, loading>>
    \/ Reload /\ UNCHANGED <<timers, locks, scan, loading>>

ReloadSpec == ReloadInit /\ [][ReloadNext]_vars

\* ------------------------------------------------------ the timed watcher
\* The polling goroutine of watchFile with its clock. Time is counted in
\* seconds, the period of the goroutine's time.Sleep.
MaxTime == 9
MaxWrites == 2

\* time.Second*3 in the goroutine's test.
QuiescenceWindow == 3

\* What a publisher leaves in the staging file.
WatchFiles ==
    {EmptyFile, GarbageFile,
     JSONFile(<<JSONEntry(1, [name |-> 1, rev |-> 1])>>)}

\* NewWithReload: the staging file may exist already, last modified not
\* after the watcher starts.
WatchInit ==
    /\ withKeys = TRUE
    /\ watching = TRUE
    /\ newStoreBeside({MissingFile, EmptyFile}, WatchFiles \cup {MissingFile})

\* One second passes.
Tick ==
    /\ now < MaxTime
    /\ now' = now + 1
    /\ res' = Result("Tick", EmptyID, "ok")
    /\ notified' = <<>>
    /\ UNCHANGED <<withKeys, watching, itemsFromFile, itemByID, indexSet,
                   file, loadfile, errfile, changing, published, modTime,
                   lastModTime, nextPoll, fresh>>

\* An external publisher writes the staging file: its ModTime becomes the
\* time of the write.
WriteStaging ==
    /\ Alive
    /\ published < MaxWrites
    /\ published' = published + 1
    /\ \E f \in WatchFiles : loadfile' = f
    /\ modTime' = now
    /\ fresh' = TRUE
    /\ res' = Result("Publish", EmptyID, "ok")
    /\ notified' = <<>>
    /\ UNCHANGED <<withKeys, watching, itemsFromFile, itemByID, indexSet,
                   file, errfile, changing, now, lastModTime, nextPoll>>

RemoveStaging == Remove /\ UNCHANGED timers

\* A faulty test of the ModTime that asks for an older file; C33 tells it
\* from ModTimeAfter.
ModTimeBefore(m, last) == m < last

\* A faulty test of the ModTime that also takes an equal time for a change;
\* C40 tells it from ModTimeAfter.
ModTimeNotBefore(m, last) == m >= last

\* info.ModTime().After(lastModTime)
ModTimeAfter(m, last) == m > last

\* time.Now().After(lastModTime.Add(time.Second*3))
QuiescentAtWindow(last) == now >= last + QuiescenceWindow

Quiescent(last) == now > last + QuiescenceWindow

\* One round of the goroutine's loop: os.Stat, the ModTime test, the
\* quiescence test with processModifiedFile, and the one-second sleep.
\* readFile creates a missing staging file, which gets the ModTime of its
\* creation.
Poll ==
    /\ Alive
    /\ watching
    /\ now >= nextPoll
    /\ nextPoll' = now + 1
    /\ LET seen == loadfile # MissingFile /\ ModTimeAfter(modTime, lastModTime)
           last == IF seen THEN modTime ELSE lastModTime
       IN  /\ lastModTime' = last
           /\ IF (changing \/ seen) /\ Quiescent(last)
              THEN /\ \E mio \in MarkerOutcomes, cio \in IOOutcomes :
                        \E oldOrder \in Orders(itemByID),
                           newOrder \in Orders(LoadedByID(loadfile)) :
                           processModifiedFile(mio, cio, oldOrder, newOrder)
                   /\ changing' = FALSE
                   /\ modTime' = IF loadfile = MissingFile
                                 THEN now ELSE modTime
                   /\ fresh' = FALSE
              ELSE /\ changing' = (changing \/ seen)
                   /\ res' = Result("Poll", EmptyID, "ok")
                   /\ notified' = <<>>
                   /\ UNCHANGED <<itemsFromFile, itemByID, indexSet, file,
                                  loadfile, errfile, modTime, fresh>>
    /\ UNCHANGED <<withKeys, watching, published, now>>

WatchNext ==
    \/ Tick /\ UNCHANGED <<locks, scan, loading>>
    \/ WriteStaging /\ UNCHANGED <<locks, scan, loading>>
    \/ RemoveStaging /\ UNCHANGED <<locks, scan, loading>>
    \/ Poll /\ UNCHANGED <<locks, scan, loading>>

WatchSpec == WatchInit /\ [][WatchNext]_vars

\* ------------------------------------------------- the calls step by step
\* Several goroutines call Add, Upd, Del and Get while the watcher reloads
\* the staging file. Every call is s.mutex.Lock(), its checks, what it does
\* after them, and the deferred s.mutex.Unlock() on its return.
LockFiles ==
    {MissingFile, JSONFile(<<JSONEntry(1, [name |-> 1, rev |-> 1])>>)}

LockItems ==
    {NilItem, [name |-> EmptyName, rev |-> 1], [name |-> 1, rev |-> 1],
     [name |-> 1, rev |-> 2], [name |-> 2, rev |-> 1]}

LockInit ==
    /\ withKeys = TRUE
    /\ watching = TRUE
    /\ newStore(LockFiles)

\* What the steps of the store leave alone when they only move a goroutine.
StoreUnchanged ==
    UNCHANGED <<withKeys, watching, itemsFromFile, itemByID, indexSet, file,
                loadfile, errfile, changing, res, notified, published>>

\* A faulty Lock that the goroutine holding the mutex passes again; C36
\* tells it from MutexLock.
MutexLockReentrant(g) == mutex \in {NoHolder, g} /\ mutex' = g

\* A faulty Lock that does not wait for the mutex; C28 tells it from
\* MutexLock.
MutexLockAnyway(g) == mutex' = g

\* s.mutex.Lock(): blocks until the mutex is free.
MutexLock(g) == mutex = NoHolder /\ mutex' = g

\* A faulty call that gives the mutex up after its checks; C30 tells it
\* from MutexHeld.
MutexGivenUp(g) == mutex' = NoHolder

\* The mutex stays locked between the checks and the return: the only
\* Unlock is the deferred one.
MutexHeld(g) == mutex' = mutex

\* defer s.mutex.Unlock()
MutexUnlock(g) == mutex' = NoHolder

At(g, where) == [pc EXCEPT ![g] = where]

Returned(g, err) == [call EXCEPT ![g].err = err]

\* A goroutine calls Add(item), Upd(id, item), Del(id) or Get(id).
Call(g) ==
    /\ Alive
    /\ pc[g] = "idle"
    /\ \E op \in {"Add", "Upd", "Del", "Get"}, id \in IDs, item \in LockItems :
         call' = [call EXCEPT ![g] =
                    [op |-> op,
                     id |-> IF op = "Add" THEN EmptyID ELSE id,
                     item |-> IF op \in {"Add", "Upd"} THEN item ELSE NilItem,
                     err |-> "ok"]]
    /\ pc' = At(g, "locking")
    /\ UNCHANGED mutex
    /\ StoreUnchanged

Lock(g) ==
    /\ pc[g] = "locking"
    /\ MutexLock(g)
    /\ pc' = At(g, "inside")
    /\ UNCHANGED call
    /\ StoreUnchanged

\* The checks of Add and Upd: an error returns at once, with the deferred
\* Unlock still to run.
Check(g) ==
    /\ pc[g] = "inside"
    /\ call[g].op \in {"Add", "Upd"}
    /\ IF call[g].op = "Add"
       THEN /\ Len(itemsFromFile) < MaxItems
            /\ \E newID \in IDs :
                 LET err == AddChecks(call[g].item, newID)
                 IN  IF err # "ok"
                     THEN /\ Rejected("Add", EmptyID, err)
                          /\ call' = Returned(g, err)
                          /\ pc' = At(g, "returning")
                          /\ UNCHANGED mutex
                     ELSE /\ call' = [call EXCEPT ![g].id = newID]
                          /\ pc' = At(g, "checked")
                          /\ MutexHeld(g)
                          /\ StoreUnchanged
       ELSE LET err == UpdChecks(call[g].id, call[g].item)
            IN  IF err # "ok"
                THEN /\ Rejected("Upd", call[g].id, err)
                     /\ call' = Returned(g, err)
                     /\ pc' = At(g, "returning")
                     /\ UNCHANGED mutex
                ELSE /\ pc' = At(g, "checked")
                     /\ MutexHeld(g)
                     /\ UNCHANGED call
                     /\ StoreUnchanged

\* What Add and Upd do after their checks.
Commit(g) ==
    /\ pc[g] = "checked"
    /\ \E io \in IOOutcomes :
         IF call[g].op = "Add"
         THEN AddCommit(call[g].item, call[g].id, io)
         ELSE UpdCommit(call[g].id, call[g].item, io)
    /\ call' = Returned(g, res'.err)
    /\ pc' = At(g, "returning")
    /\ UNCHANGED mutex

\* The body of Del and of Get.
Body(g) ==
    /\ pc[g] = "inside"
    /\ call[g].op \in {"Del", "Get"}
    /\ IF call[g].op = "Del"
       THEN \E io \in IOOutcomes : Del(call[g].id, io)
       ELSE Rejected("Get", call[g].id, Get(call[g].id).err)
    /\ call' = Returned(g, res'.err)
    /\ pc' = At(g, "returning")
    /\ UNCHANGED mutex

\* The return of a call runs the deferred Unlock.
Unlock(g) ==
    /\ pc[g] = "returning"
    /\ MutexUnlock(g)
    /\ pc' = At(g, IF g = Watcher THEN "finishing" ELSE "done")
    /\ UNCHANGED call
    /\ StoreUnchanged

\* The watcher found the staging file changed and quiet, and calls readFile.
LoadLock ==
    /\ Alive
    /\ watching
    /\ changing
    /\ pc[Watcher] = "idle"
    /\ MutexLock(Watcher)
    /\ pc' = At(Watcher, "inside")
    /\ changing' = FALSE
    /\ call' = [call EXCEPT ![Watcher] =
                  [op |-> "Reload", id |-> EmptyID, item |-> NilItem,
                   err |-> "ok"]]
    /\ UNCHANGED <<withKeys, watching, itemsFromFile, itemByID, indexSet,
                   file, loadfile, errfile, res, notified, published>>

\* readFile of the staging file under the mutex: the notifications and the
\* replacement of the list, the id map and the index.
LoadBody ==
    /\ pc[Watcher] = "inside"
    /\ \E oldOrder \in Orders(itemByID),
          newOrder \in Orders(LoadedByID(loadfile)) :
         LET r == readFile(loadfile, itemsFromFile, itemByID, indexSet, "ok",
                           oldOrder, newOrder)
         IN  /\ res' = Result("Reload", EmptyID, r.err)
             /\ loadfile' = r.file
             /\ changing' = (changing \/ r.file # loadfile)
             /\ call' = Returned(Watcher, r.err)
             /\ IF r.err # "ok"
                THEN /\ notified' = <<>>
                     /\ UNCHANGED <<itemsFromFile, itemByID, indexSet>>
                ELSE /\ itemsFromFile' = r.list
                     /\ itemByID' = r.byID
                     /\ indexSet' = r.index
                     /\ notified' = r.notified
    /\ pc' = At(Watcher, "returning")
    /\ UNCHANGED <<withKeys, watching, file, errfile, published, mutex>>

\* The rest of processModifiedFile after readFile returned: the error file
\* and the copy of the staging file over the primary file.
LoadFinish ==
    /\ pc[Watcher] = "finishing"
    /\ \E mio \in MarkerOutcomes, cio \in IOOutcomes :
         IF call[Watcher].err # "ok"
         THEN /\ errfile' = MarkerWritten(errfile, call[Watcher].err, mio)
              /\ UNCHANGED file
         ELSE /\ errfile' = MarkerRemoved(errfile, mio)
              /\ file' = Copied(loadfile, file, cio)
    /\ pc' = At(Watcher, "idle")
    /\ UNCHANGED <<withKeys, watching, itemsFromFile, itemByID, indexSet,
                   loadfile, changing, res, notified, published, mutex, call>>

LockPublish == PublishFrom(LockFiles \cup {GarbageFile})

LockNext ==
    \/ \E g \in Callers : Call(g) /\ UNCHANGED <<timers, scan, loading>>
    \/ \E g \in Callers : Lock(g) /\ UNCHANGED <<timers, scan, loading>>
    \/ \E g \in Callers : Check(g) /\ UNCHANGED <<timers, scan, loading>>
    \/ \E g \in Callers : Commit(g) /\ UNCHANGED <<timers, scan, loading>>
    \/ \E g \in Callers : Body(g) /\ UNCHANGED <<timers, scan, loading>>
    \/ \E g \in Goroutines : Unlock(g) /\ UNCHANGED <<timers, scan, loading>>
    \/ LockPublish /\ UNCHANGED <<timers, locks, scan, loading>>
    \/ LoadLock /\ UNCHANGED <<timers, scan, loading>>
    \/ LoadBody /\ UNCHANGED <<timers, scan, loading>>
    \/ LoadFinish /\ UNCHANGED <<timers, scan, loading>>

LockSpec == LockInit /\ [][LockNext]_vars

\* ------------------------------------------------- any id generator
\* A store without watcher whose id generator may return any string, the
\* empty one included, and which is closed and constructed again over its
\* primary file.
IDGenInit ==
    /\ withKeys \in BOOLEAN
    /\ watching = FALSE
    /\ newStore({MissingFile})

\* Add with an id generator that may return "".
AddAnyID ==
    /\ Alive
    /\ \E item \in AnyItem, newID \in IDs \cup {EmptyID}, io \in IOOutcomes :
         Add(item, newID, io)

\* New over the primary file the store has written.
Reopen ==
    /\ Alive
    /\ \E newOrder \in Orders(LoadedByID(file)) :
         LET r == readFile(file, <<>>, EmptyMap, EmptyMap, "ok", <<>>, newOrder)
         IN  /\ itemsFromFile' = r.list
             /\ itemByID' = r.byID
             /\ indexSet' = r.index
             /\ file' = r.file
             /\ notified' = r.notified
             /\ res' = Result("New", EmptyID, r.err)
    /\ UNCHANGED <<withKeys, watching, loadfile, errfile, changing, published>>

IDGenNext ==
    \/ AddAnyID /\ UNCHANGED <<timers, locks, scan, loading>>
    \/ UpdCall /\ UNCHANGED <<timers, locks, scan, loading>>
    \/ DelCall /\ UNCHANGED <<timers, locks, scan, loading>>
    \/ Reopen /\ UNCHANGED <<timers, locks, scan, loading>>

IDGenSpec == IDGenInit /\ [][IDGenNext]_vars

\* ---------------------------------------------- Find beside the mutators
\* Find takes no mutex. Its range statement loads the slice header of
\* s.itemsFromFile, a data pointer and a length, while Add, Upd and Del
\* store a new header under the mutex: the two loads are not one step, so
\* they can come from different headers. The arrays themselves are never
\* changed within their length once they are in s.itemsFromFile.
MaxFinds == 1
MaxSeen == 2

FindInit ==
    /\ withKeys = FALSE
    /\ watching = FALSE
    /\ newStore({MissingFile})

\* A running Find has the sequence change beside it; seen collects every
\* value the sequence had during the call.
Observed ==
    scan' = IF scan.pc = "reading"
            THEN [scan EXCEPT !.seen = @ \cup {itemsFromFile'}]
            ELSE scan

\* At most MaxSeen values of the sequence during one Find, and the
\* exploration ends with the return of the last one.
MayMutate ==
    /\ scan.pc = "reading" => Cardinality(scan.seen) < MaxSeen
    /\ scan.pc = "done" => scan.finds < MaxFinds

\* Find(size, nil) is called.
FindCall ==
    /\ Alive
    /\ scan.pc = "idle"
    /\ scan.finds < MaxFinds
    /\ \E size \in {0, 1} :
         scan' = [NoScan EXCEPT !.pc = "reading", !.size = size,
                                !.seen = {itemsFromFile},
                                !.finds = scan.finds + 1]
    /\ StoreUnchanged

\* The load of the header's data pointer: the array the Find will walk.
ReadPtr ==
    /\ scan.pc = "reading"
    /\ ~scan.ptrRead
    /\ scan' = [scan EXCEPT !.ptr = itemsFromFile, !.ptrRead = TRUE]
    /\ StoreUnchanged

\* The load of the header's length.
ReadLen ==
    /\ scan.pc = "reading"
    /\ scan.len = Unread
    /\ scan' = [scan EXCEPT !.len = Len(itemsFromFile)]
    /\ StoreUnchanged

\* The loop of Find without a filter over the records it walks.
RECURSIVE ScanFrom(_, _, _, _)
ScanFrom(walked, k, size, found) ==
    IF k > Len(walked) THEN found
    ELSE LET list == Append(found, walked[k])
         IN  IF size > 0 /\ Len(list) >= size THEN list
             ELSE ScanFrom(walked, k + 1, size, list)

\* The loop runs over the loaded length of the loaded array and Find
\* returns. A length beyond the array's own reads what lies behind it: the
\* records appended in place if the longer slice shares the array, anything
\* otherwise.
FindReturn ==
    /\ scan.pc = "reading"
    /\ scan.ptrRead
    /\ scan.len # Unread
    /\ IF scan.len <= Len(scan.ptr)
       THEN scan' = [scan EXCEPT
                       !.pc = "done",
                       !.out = ScanFrom(SubSeq(scan.ptr, 1, scan.len), 1,
                                        scan.size, <<>>)]
       ELSE \/ \E l \in scan.seen :
                 /\ Len(l) = scan.len
                 /\ SubSeq(l, 1, Len(scan.ptr)) = scan.ptr
                 /\ scan' = [scan EXCEPT
                               !.pc = "done",
                               !.out = ScanFrom(l, 1, scan.size, <<>>)]
            \/ scan' = [scan EXCEPT
                          !.pc = "done", !.fault = TRUE,
                          !.out = ScanFrom(scan.ptr, 1, scan.size, <<>>)]
    /\ StoreUnchanged

FindNext ==
    \/ AddCall /\ MayMutate /\ Observed /\ UNCHANGED <<timers, locks, loading>>
    \/ UpdCall /\ MayMutate /\ Observed /\ UNCHANGED <<timers, locks, loading>>
    \/ DelCall /\ MayMutate /\ Observed /\ UNCHANGED <<timers, locks, loading>>
    \/ FindCall /\ UNCHANGED <<timers, locks, loading>>
    \/ ReadPtr /\ UNCHANGED <<timers, locks, loading>>
    \/ ReadLen /\ UNCHANGED <<timers, locks, loading>>
    \/ FindReturn /\ UNCHANGED <<timers, locks, loading>>

FindSpec == FindInit /\ [][FindNext]_vars

\* ------------------------------------------- hooks under the mutex
\* Add, Upd, Del and readFile call the items' NotifyNew, NotifyUpd and
\* NotifyDel between their Lock and their deferred Unlock. A hook is code of
\* the application: it returns at once, or it calls Find, or it calls Get
\* on the store it was called from.
HookKinds == {"returns", "find", "get"}

HookFiles ==
    {JSONFile(<<JSONEntry(1, [name |-> 1, rev |-> 2])>>),
     JSONFile(<<JSONEntry(2, [name |-> 2, rev |-> 1])>>)}

HookItems == {[name |-> 1, rev |-> 2], [name |-> 2, rev |-> 1]}

HookInit ==
    /\ withKeys = TRUE
    /\ watching = TRUE
    /\ newStore({JSONFile(<<JSONEntry(1, [name |-> 1, rev |-> 1])>>)})

\* A goroutine calls Add(item), Upd(id, item) or Del(id).
HookCall(g) ==
    /\ Alive
    /\ pc[g] = "idle"
    /\ \E op \in {"Add", "Upd", "Del"}, id \in IDs, item \in HookItems :
         call' = [call EXCEPT ![g] =
                    [op |-> op,
                     id |-> IF op = "Add" THEN EmptyID ELSE id,
                     item |-> IF op = "Del" THEN NilItem ELSE item,
                     err |-> "ok"]]
    /\ pc' = At(g, "locking")
    /\ UNCHANGED mutex
    /\ StoreUnchanged

\* s.mutex.Lock() of a call, whether a goroutine of the application made
\* the call or a hook did: the hook's goroutine holds the mutex already.
HookLock(g) ==
    /\ pc[g] \in {"locking", "nested"}
    /\ MutexLock(g)
    /\ pc' = At(g, "inside")
    /\ UNCHANGED call
    /\ StoreUnchanged

\* Where a call that fired a hook goes on: to the hook if it has one to
\* call, to its return otherwise.
HookOrReturn(g) == pc' = At(g, IF notified' # <<>> THEN "hook" ELSE "returning")

\* What Add and Upd do after their checks, up to the call of the hook.
HookCommit(g) ==
    /\ pc[g] = "checked"
    /\ \E io \in IOOutcomes :
         IF call[g].op = "Add"
         THEN AddCommit(call[g].item, call[g].id, io)
         ELSE UpdCommit(call[g].id, call[g].item, io)
    /\ call' = Returned(g, res'.err)
    /\ HookOrReturn(g)
    /\ UNCHANGED mutex

\* The body of Del with the call of its hook. Del takes the id out of the
\* map after the hook (239); the map is read under the mutex only, so no
\* step sees it between the hook and the return.
HookBody(g) ==
    /\ pc[g] = "inside"
    /\ call[g].op = "Del"
    /\ \E io \in IOOutcomes : Del(call[g].id, io)
    /\ call' = Returned(g, res'.err)
    /\ HookOrReturn(g)
    /\ UNCHANGED mutex

\* Where the goroutine goes on when its hook returns: a call to its return,
\* readFile to its next hook or the replacement.
AfterHook(g) == IF g = Watcher THEN "notifying" ELSE "returning"

\* The hook runs in the goroutine that fired it.
HookRun(g) ==
    /\ pc[g] = "hook"
    /\ \E kind \in HookKinds :
         pc' = At(g, CASE kind = "returns" -> AfterHook(g)
                       [] kind = "find" -> "hookfind"
                       [] kind = "get" -> "nested")
    /\ UNCHANGED <<mutex, call, scan>>
    /\ StoreUnchanged

\* The hook's Find(0, nil) returns what the sequence holds.
HookFind(g) ==
    /\ pc[g] = "hookfind"
    /\ scan' = [NoScan EXCEPT !.pc = "done",
                              !.out = ScanFrom(itemsFromFile, 1, 0, <<>>)]
    /\ pc' = At(g, AfterHook(g))
    /\ UNCHANGED <<mutex, call>>
    /\ StoreUnchanged

\* readFile under the mutex up to its hooks: the staging file is opened
\* (created if missing), decoded and validated into a new list, map and
\* index.
HookLoad ==
    /\ pc[Watcher] = "inside"
    /\ \E oldOrder \in Orders(itemByID),
          newOrder \in Orders(LoadedByID(loadfile)) :
         LET r == readFile(loadfile, itemsFromFile, itemByID, indexSet, "ok",
                           oldOrder, newOrder)
         IN  /\ loadfile' = r.file
             /\ changing' = (changing \/ r.file # loadfile)
             /\ IF r.err # "ok"
                THEN /\ res' = Result("Reload", EmptyID, r.err)
                     /\ notified' = <<>>
                     /\ call' = Returned(Watcher, r.err)
                     /\ pc' = At(Watcher, "returning")
                     /\ UNCHANGED loading
                ELSE /\ loading' = [file |-> r.file, list |-> r.list,
                                    byID |-> r.byID, index |-> r.index,
                                    pending |-> r.notified, fired |-> <<>>]
                     /\ pc' = At(Watcher, "notifying")
                     /\ UNCHANGED <<res, notified, call>>
    /\ UNCHANGED <<withKeys, watching, itemsFromFile, itemByID, indexSet,
                   file, errfile, published, mutex>>

\* readFile calls its next hook.
LoadNotify ==
    /\ pc[Watcher] = "notifying"
    /\ loading.pending # <<>>
    /\ loading' = [loading EXCEPT !.pending = Tail(@),
                                  !.fired = Append(@, Head(loading.pending))]
    /\ pc' = At(Watcher, "hook")
    /\ UNCHANGED <<mutex, call>>
    /\ StoreUnchanged

\* A faulty readFile that does not wait for its loops; C32 tells it from
\* LoopsDone.
LoopsSkipped(pending) == TRUE

\* The two loops over the old and the new map have ended.
LoopsDone(pending) == pending = <<>>

\* readFile replaces the old list, map and index and returns.
LoadReplace ==
    /\ pc[Watcher] = "notifying"
    /\ LoopsDone(loading.pending)
    /\ itemsFromFile' = loading.list
    /\ itemByID' = loading.byID
    /\ indexSet' = loading.index
    /\ notified' = loading.fired
    /\ res' = Result("Reload", EmptyID, "ok")
    /\ call' = Returned(Watcher, "ok")
    /\ pc' = At(Watcher, "returning")
    /\ loading' = NoLoad
    /\ UNCHANGED <<withKeys, watching, file, loadfile, errfile, changing,
                   published, mutex>>

HookPublish == PublishFrom(HookFiles)

HookNext ==
    \/ \E g \in Callers : HookCall(g) /\ UNCHANGED <<timers, scan, loading>>
    \/ \E g \in Callers : HookLock(g) /\ UNCHANGED <<timers, scan, loading>>
    \/ \E g \in Callers : Check(g) /\ UNCHANGED <<timers, scan, loading>>
    \/ \E g \in Callers : HookCommit(g) /\ UNCHANGED <<timers, scan, loading>>
    \/ \E g \in Callers : HookBody(g) /\ UNCHANGED <<timers, scan, loading>>
    \/ \E g \in Goroutines : HookRun(g) /\ UNCHANGED <<timers, loading>>
    \/ \E g \in Goroutines : HookFind(g) /\ UNCHANGED <<timers, loading>>
    \/ \E g \in Goroutines : Unlock(g) /\ UNCHANGED <<timers, scan, loading>>
    \/ HookPublish /\ UNCHANGED <<timers, locks, scan, loading>>
    \/ LoadLock /\ UNCHANGED <<timers, scan, loading>>
    \/ HookLoad /\ UNCHANGED <<timers, scan>>
    \/ LoadNotify /\ UNCHANGED <<timers, scan>>
    \/ LoadReplace /\ UNCHANGED <<timers, scan>>
    \/ LoadFinish /\ UNCHANGED <<timers, scan, loading>>

HookSpec == HookInit /\ [][HookNext]_vars

\* ------------------------------------------- the watcher, step by step
\* The goroutine of watchFile with its reload taken apart: the round's
\* os.Stat and tests, readFile, and the rest of processModifiedFile with
\* the sleep. Time passes and publishers write between the steps. The loop
\* never ends and no other goroutine takes the mutex here, so every step
\* the goroutine can take it takes in the end.

\* A publisher's write early enough for the clock of the model to reach
\* the end of its quiescence window.
LiveWrite ==
    /\ now + QuiescenceWindow < MaxTime
    /\ WriteStaging

\* When time.Sleep(time.Second) ends. The clock of the model stops at
\* MaxTime and the rounds of the loop go on there.
SleepEnd == IF now < MaxTime THEN now + 1 ELSE MaxTime

\* os.Stat with the ModTime test, and the quiescence test: the round goes
\* on to processModifiedFile or to its sleep.
PollStat ==
    /\ Alive
    /\ watching
    /\ pc[Watcher] = "idle"
    /\ now >= nextPoll
    /\ LET seen == loadfile # MissingFile /\ ModTimeAfter(modTime, lastModTime)
           last == IF seen THEN modTime ELSE lastModTime
       IN  /\ lastModTime' = last
           /\ changing' = (changing \/ seen)
           /\ IF (changing \/ seen) /\ Quiescent(last)
              THEN /\ pc' = At(Watcher, "inside")
                   /\ UNCHANGED nextPoll
              ELSE /\ nextPoll' = SleepEnd
                   /\ UNCHANGED pc
    /\ res' = Result("Poll", EmptyID, "ok")
    /\ notified' = <<>>
    /\ UNCHANGED <<withKeys, watching, itemsFromFile, itemByID, indexSet,
                   file, loadfile, errfile, published, now, modTime, fresh,
                   mutex, call, loading>>

\* readFile of the staging file as it is now; loading.file keeps the
\* content it was given.
LiveRead ==
    /\ pc[Watcher] = "inside"
    /\ \E oldOrder \in Orders(itemByID),
          newOrder \in Orders(LoadedByID(loadfile)) :
         LET r == readFile(loadfile, itemsFromFile, itemByID, indexSet, "ok",
                           oldOrder, newOrder)
         IN  /\ res' = Result("Reload", EmptyID, r.err)
             /\ loadfile' = r.file
             /\ call' = [call EXCEPT ![Watcher] =
                           [op |-> "Reload", id |-> EmptyID, item |-> NilItem,
                            err |-> r.err]]
             /\ IF r.err # "ok"
                THEN /\ notified' = <<>>
                     /\ UNCHANGED <<itemsFromFile, itemByID, indexSet>>
                ELSE /\ itemsFromFile' = r.list
                     /\ itemByID' = r.byID
                     /\ indexSet' = r.index
                     /\ notified' = r.notified
    /\ loading' = [NoLoad EXCEPT !.file = loadfile]
    /\ modTime' = IF loadfile = MissingFile THEN now ELSE modTime
    /\ fresh' = FALSE
    /\ pc' = At(Watcher, "finishing")
    /\ UNCHANGED <<withKeys, watching, file, errfile, changing, published,
                   now, lastModTime, nextPoll, mutex>>

\* The rest of processModifiedFile, changing = false, and the sleep.
LiveFinish ==
    /\ pc[Watcher] = "finishing"
    /\ \E mio \in MarkerOutcomes, cio \in IOOutcomes :
         IF call[Watcher].err # "ok"
         THEN /\ errfile' = MarkerWritten(errfile, call[Watcher].err, mio)
              /\ UNCHANGED file
         ELSE /\ errfile' = MarkerRemoved(errfile, mio)
              /\ file' = Copied(loadfile, file, cio)
    /\ changing' = FALSE
    /\ nextPoll' = SleepEnd
    /\ pc' = At(Watcher, "idle")
    /\ UNCHANGED <<withKeys, watching, itemsFromFile, itemByID, indexSet,
                   loadfile, res, notified, published, now, modTime,
                   lastModTime, fresh, mutex, call, loading>>

LiveNext ==
    \/ Tick /\ UNCHANGED <<locks, scan, loading>>
    \/ LiveWrite /\ UNCHANGED <<locks, scan, loading>>
    \/ RemoveStaging /\ UNCHANGED <<locks, scan, loading>>
    \/ PollStat /\ UNCHANGED scan
    \/ LiveRead /\ UNCHANGED scan
    \/ LiveFinish /\ UNCHANGED scan

LiveSpec ==
    /\ WatchInit
    /\ [][LiveNext]_vars
    /\ WF_vars(Tick /\ UNCHANGED <<locks, scan, loading>>)
    /\ WF_vars(PollStat /\ UNCHANGED scan)
    /\ WF_vars(LiveRead /\ UNCHANGED scan)
    /\ WF_vars(LiveFinish /\ UNCHANGED scan)

\* ------------------------------------------------------------ store.Find
\* user.Match: the item type of the tests matches every filter.
Match(item, filter) == "ok"

\* IItem.Match is the item type's own: "user" is the type of the tests,
\* "byname" a type whose Match accepts the items with the filter's name.
MatchKinds == {"user", "byname"}

MatchOf(kind, item, filter) ==
    IF kind = "user" THEN Match(item, filter)
    ELSE IF item.name = filter.name THEN "ok"
    ELSE "nomatch"

\* A faulty scan that tests the limit before it appends, and so returns one
\* record more than the limit; C13 tells it from FindFrom.
RECURSIVE FindFromOneMore(_, _, _, _, _)
FindFromOneMore(kind, k, size, filter, found) ==
    IF k > Len(itemsFromFile) THEN found
    ELSE IF filter # NilItem /\ MatchOf(kind, itemsFromFile[k].Item, filter) # "ok"
         THEN FindFromOneMore(kind, k + 1, size, filter, found)
    ELSE LET list == Append(found, itemsFromFile[k])
         IN  IF size > 0 /\ Len(found) >= size THEN list
             ELSE FindFromOneMore(kind, k + 1, size, filter, list)

\* The scan of Find from record k on, with the results collected so far.
RECURSIVE FindFrom(_, _, _, _, _)
FindFrom(kind, k, size, filter, found) ==
    IF k > Len(itemsFromFile) THEN found
    ELSE IF filter # NilItem /\ MatchOf(kind, itemsFromFile[k].Item, filter) # "ok"
         THEN FindFrom(kind, k + 1, size, filter, found)
    ELSE LET list == Append(found, itemsFromFile[k])
         IN  IF size > 0 /\ Len(list) >= size THEN list
             ELSE FindFrom(kind, k + 1, size, filter, list)

\* Find on a store of items whose Match is of the given kind.
FindWith(kind, size, filter) == FindFrom(kind, 1, size, filter, <<>>)

Find(size, filter) == FindWith("user", size, filter)

\* ----------------------------------------------------------- store.GetBy
\* The keys GetBy is called with: any of the fields name and rev, each with
\* a value.
KeyMaps ==
    UNION {[d -> Names \cup (1..MaxRev)] : d \in SUBSET {"name", "rev"}}

\* user.MatchKey: every field the key names must be equal, and the key must
\* name at least one field.
MatchKey(item, key) ==
    IF "name" \in DOMAIN key /\ item.name # key["name"] THEN FALSE
    ELSE IF "rev" \in DOMAIN key /\ item.rev # key["rev"] THEN FALSE
    ELSE "name" \in DOMAIN key \/ "rev" \in DOMAIN key

\* The scan of GetBy from record k on.
RECURSIVE GetByFrom(_, _)
GetByFrom(k, key) ==
    IF k > Len(itemsFromFile)
    THEN [id |-> EmptyID, item |-> NilItem, err |-> "notfound"]
    ELSE IF MatchKey(itemsFromFile[k].Item, key)
         THEN [id |-> itemsFromFile[k].ID, item |-> itemsFromFile[k].Item,
               err |-> "ok"]
    ELSE GetByFrom(k + 1, key)

GetBy(key) == GetByFrom(1, key)

\* ============================================================== claims
\* The records the store holds: those of the ordered sequence and those of
\* the id map.
SeqIDs == {itemsFromFile[k].ID : k \in 1..Len(itemsFromFile)}
HeldRecords ==
    {<<itemsFromFile[k].ID, itemsFromFile[k].Item>> : k \in 1..Len(itemsFromFile)}
    \cup {<<id, itemByID[id]>> : id \in DOMAIN itemByID}

\* (field, value) is indexed under id.
IndexedAs(idx, n, v, id) ==
    /\ n \in DOMAIN idx
    /\ v \in DOMAIN idx[n]
    /\ idx[n][v] = id

\* C1: whenever no operation is in progress, the ids of the ordered sequence
\* are pairwise distinct, are exactly the keys of the id map, and each id has
\* the same item in the sequence and in the map.
C1_SequenceIsMap ==
    /\ \A j, k \in 1..Len(itemsFromFile) :
          j # k => itemsFromFile[j].ID # itemsFromFile[k].ID
    /\ SeqIDs = DOMAIN itemByID
    /\ \A k \in 1..Len(itemsFromFile) :
          itemsFromFile[k].ID \in DOMAIN itemByID
             => itemByID[itemsFromFile[k].ID] = itemsFromFile[k].Item

\* C2: after every completed operation, every unique (field, value) a held
\* record declares is indexed under that record's id, and no two distinct
\* held records declare the same value for the same field.
C2_HeldKeysIndexed ==
    withKeys =>
        /\ \A r \in HeldRecords : \A n \in DOMAIN Keys(r[2]) :
              IndexedAs(indexSet, n, Keys(r[2])[n], r[1])
        /\ \A j, k \in 1..Len(itemsFromFile) :
              j # k => \A n \in DOMAIN Keys(itemsFromFile[j].Item) :
                          Keys(itemsFromFile[j].Item)[n]
                             # Keys(itemsFromFile[k].Item)[n]

\* The store a later construction on the file f builds.
LoadOf(f) == readFile(f, <<>>, EmptyMap, EmptyMap, "ok", <<>>, <<>>)

\* The primary file loads without error into the sequence and the id map
\* the store holds.
FileHoldsStore ==
    /\ LoadOf(file).err = "ok"
    /\ LoadOf(file).list = itemsFromFile
    /\ LoadOf(file).byID = itemByID

C4_HeldItemsValid ==
    \A r \in HeldRecords : r[2] # NilItem /\ Validate(r[2]) = "ok"

C4_Witness ==
    /\ res.op = "Upd"
    /\ res.err = "ok"
    /\ HeldRecords # {}
    /\ \A r \in HeldRecords : Validate(r[2]) = "ok"

\* C5: an Add that returns an id without error makes Get of that id return
\* the added item, and Get of an id keeps returning the same item over every
\* step that is neither a successful Upd or Del of that id nor a reload.
C5_AddThenGet ==
    [][/\ (res'.op = "Add" /\ res'.err = "ok")
             => \A item \in Items, newID \in IDs, io \in IOOutcomes :
                   Add(item, newID, io)
                      => Lookup(itemByID', res'.id) = [item |-> item, err |-> "ok"]
       /\ \A id \in DOMAIN itemByID :
             (/\ res'.op # "Reload"
              /\ ~(res'.op \in {"Upd", "Del"} /\ res'.err = "ok" /\ res'.id = id))
                => Lookup(itemByID', id) = Lookup(itemByID, id)]_vars

C5_Witness ==
    /\ res.op = "Add"
    /\ res.err = "ok"
    /\ Cardinality(DOMAIN itemByID) = 2
    /\ Lookup(itemByID, res.id).err = "ok"

\* Some held record other than the one with id `id` declares all the unique
\* values of item.
DeclaredByOther(id, item) ==
    \E r \in HeldRecords : r[1] # id /\ Keys(r[2]) = Keys(item)

\* C6: with an item type that declares unique fields, in every state the
\* store can be in, the checks of Add answer duplicate-key for a valid item
\* whose unique value a held record declares, and the checks of Upd of id x
\* answer duplicate-key when a held record with another id declares it.
C6_DuplicateRejected ==
    withKeys =>
        \A item \in Items, id \in IDs :
            Validate(item) = "ok" =>
                /\ DeclaredByOther(EmptyID, item)
                      => AddChecks(item, id) = "duplicate"
                /\ DeclaredByOther(id, item)
                      => UpdChecks(id, item) = "duplicate"

\* Every unique value of item is free or indexed under id.
FreeOrOwn(id, item) ==
    \A n \in DOMAIN Keys(item) :
        (n \in DOMAIN indexSet /\ Keys(item)[n] \in DOMAIN indexSet[n])
            => indexSet[n][Keys(item)[n]] = id

FreeIn(idx, item) ==
    \A n \in DOMAIN Keys(item) :
        ~(n \in DOMAIN idx /\ Keys(item)[n] \in DOMAIN idx[n])

\* C8: after a successful Upd that changes a record's unique value the old
\* value is free again, and after a successful Del the unique values of the
\* records that were deleted are free again.
C8_ValueReleased ==
    [][/\ (withKeys /\ res'.op = "Upd" /\ res'.err = "ok")
             => \A item \in Items :
                   Upd(res'.id, item, "ok")
                      => \A r \in HeldRecords :
                            (r[1] = res'.id /\ Keys(r[2]) # Keys(item))
                               => FreeIn(indexSet', r[2])
       /\ (withKeys /\ res'.op = "Del" /\ res'.err = "ok" /\ Del(res'.id, "ok"))
             => \A r \in HeldRecords :
                   r[1] = res'.id => FreeIn(indexSet', r[2])]_vars

\* C9: Del of an id the store does not hold returns success and changes
\* neither the sequence, the id map, the indexes nor the primary file, and
\* fires no notification.
C9_DelAbsentIsNoOp ==
    [][(res'.op = "Del" /\ res'.id \notin SeqIDs \cup DOMAIN itemByID)
          => \A io \in IOOutcomes :
                Del(res'.id, io)
                   => /\ res'.err = "ok"
                      /\ notified' = <<>>
                      /\ UNCHANGED <<itemsFromFile, itemByID, indexSet, file>>]_vars

C9_Witness ==
    /\ res.op = "Del"
    /\ res.err = "ok"
    /\ res.id \notin SeqIDs \cup DOMAIN itemByID
    /\ notified = <<>>
    /\ itemsFromFile # <<>>

\* The sequence s without its k-th element.
DropAt(s, k) == SubSeq(s, 1, k - 1) \o SubSeq(s, k + 1, Len(s))

\* C10: a successful Del of a held id removes exactly that record: Get of
\* the id then fails, Get of every other id returns what it returned before,
\* and Find returns what it returned before without that one record, in the
\* same order.
C10_DelRemovesOne ==
    [][(/\ res'.op = "Del"
        /\ res'.err = "ok"
        /\ res'.id \in SeqIDs \cup DOMAIN itemByID
        /\ Del(res'.id, "ok"))
          => /\ Lookup(itemByID', res'.id).err = "notfound"
             /\ \A other \in IDs \ {res'.id} :
                   Lookup(itemByID', other) = Lookup(itemByID, other)
             /\ \E k \in 1..Len(Find(0, NilItem)) :
                   /\ Find(0, NilItem)[k].ID = res'.id
                   /\ Find(0, NilItem)' = DropAt(Find(0, NilItem), k)]_vars

C10_Witness ==
    /\ res.op = "Del"
    /\ res.err = "ok"
    /\ Len(notified) = 1
    /\ notified[1].hook = "del"
    /\ Len(itemsFromFile) = 1
    /\ res.id \notin SeqIDs \cup DOMAIN itemByID

\* The ids of the records the store holds.
HeldIDs == SeqIDs \cup DOMAIN itemByID

\* C11: in every state the store can be in, the checks of Upd answer
\* not-found for a valid item and an id the store does not hold, whatever
\* unique values the item declares.
C11_UpdAbsentNotFound ==
    \A id \in IDs, item \in Items :
        (Validate(item) = "ok" /\ id \notin HeldIDs)
            => UpdChecks(id, item) = "notfound"

\* C12: a successful Upd replaces the item of one record with that id in
\* place: the sequence keeps its length and every other record, the record
\* keeps its id and position, Get of the id returns the new item and Get of
\* every other id returns what it returned before.
C12_UpdInPlace ==
    [][(res'.op = "Upd" /\ res'.err = "ok")
          => \A item \in Items :
                Upd(res'.id, item, "ok")
                   => /\ Len(itemsFromFile') = Len(itemsFromFile)
                      /\ \E k \in 1..Len(itemsFromFile) :
                            /\ itemsFromFile[k].ID = res'.id
                            /\ itemsFromFile'[k] = FileItem(res'.id, item)
                            /\ \A j \in 1..Len(itemsFromFile) \ {k} :
                                  itemsFromFile'[j] = itemsFromFile[j]
                      /\ Lookup(itemByID', res'.id) = [item |-> item, err |-> "ok"]
                      /\ \A other \in IDs \ {res'.id} :
                            Lookup(itemByID', other) = Lookup(itemByID, other)]_vars

C12_Witness ==
    /\ res.op = "Upd"
    /\ res.err = "ok"
    /\ Len(itemsFromFile) = 2
    /\ itemsFromFile[1].ID = res.id
    /\ itemsFromFile[2].ID # res.id
    /\ Len(notified) = 1
    /\ notified[1].item # notified[1].old
    /\ Lookup(itemByID, res.id).item = notified[1].item

\* The limits Find is called with.
FindSizes == (0 - 1)..(MaxItems + 1)

\* The records of the sequence the filter lets through, in sequence order.
Matching(kind, filter) ==
    SelectSeq(itemsFromFile,
              LAMBDA fi : filter = NilItem \/ MatchOf(kind, fi.Item, filter) = "ok")

\* C13: Find returns, in sequence order, the records whose Match accepts
\* the filter (all records when there is no filter): the first limit of
\* them when the limit is positive, all of them otherwise.
C13_FindOrderAndLimit ==
    \A kind \in MatchKinds, size \in FindSizes, filter \in AnyItem :
        FindWith(kind, size, filter) =
            IF size > 0 /\ size < Len(Matching(kind, filter))
            THEN SubSeq(Matching(kind, filter), 1, size)
            ELSE Matching(kind, filter)

C13_Witness ==
    /\ Len(itemsFromFile) = 2
    /\ itemsFromFile[1].Item.name # itemsFromFile[2].Item.name
    /\ FindWith("byname", 0, itemsFromFile[2].Item) = <<itemsFromFile[2]>>
    /\ FindWith("user", 1, NilItem) = <<itemsFromFile[1]>>
    /\ Len(FindWith("user", 0 - 1, NilItem)) = 2

\* GetBy(key) answers with the first record of the sequence that matches
\* the key, and with not-found when no held record matches.
GetByFirstMatch(key) ==
    /\ (\E k \in 1..Len(itemsFromFile) : MatchKey(itemsFromFile[k].Item, key))
          => /\ GetBy(key).err = "ok"
             /\ \E k \in 1..Len(itemsFromFile) :
                   /\ MatchKey(itemsFromFile[k].Item, key)
                   /\ \A j \in 1..(k - 1) : ~MatchKey(itemsFromFile[j].Item, key)
                   /\ GetBy(key).id = itemsFromFile[k].ID
                   /\ GetBy(key).item = itemsFromFile[k].Item
    /\ (\A r \in HeldRecords : ~MatchKey(r[2], key))
          => GetBy(key).err = "notfound"

\* C14: GetBy returns the first record in sequence order whose MatchKey is
\* true and fails with not-found when no held record matches; once a Del has
\* completed it does not return a record of the deleted id, and once an Upd
\* has completed it does not return the id with the item that was replaced.
C14_GetByFirstHeld ==
    /\ [](\A key \in KeyMaps : GetByFirstMatch(key))
    /\ [][/\ (res'.op = "Del" /\ res'.err = "ok")
             => \A key \in KeyMaps : GetBy(key)'.id # res'.id
          /\ (/\ res'.op = "Upd"
              /\ res'.err = "ok"
              /\ notified'[1].old # notified'[1].item)
             => \A key \in KeyMaps :
                   ~(/\ GetBy(key)'.id = res'.id
                     /\ GetBy(key)'.item = notified'[1].old)]_vars

\* C15: an Add, Upd or Del that returns an error leaves the sequence, the
\* id map and the index set exactly as they were.
C15_FailureKeepsMemory ==
    [][(res'.op \in {"Add", "Upd", "Del"} /\ res'.err # "ok")
          => UNCHANGED <<itemsFromFile, itemByID, indexSet>>]_vars

C15_Witness ==
    /\ res.op = "Upd"
    /\ res.err = "io"
    /\ Len(itemsFromFile) = 2
    /\ DOMAIN itemByID = SeqIDs

\* C16: an Add, Upd or Del that returns an error leaves the primary file
\* with the content it had before the call.
C16_FailureKeepsFile ==
    [][(res'.op \in {"Add", "Upd", "Del"} /\ res'.err # "ok")
          => file' = file]_vars

\* The primary file holds what the notification announces: the record with
\* its new item for NotifyNew and NotifyUpd, no record of the id for
\* NotifyDel.
Persisted(n) ==
    /\ file.kind = "json"
    /\ IF n.hook = "del"
       THEN \A k \in 1..Len(file.items) : file.items[k].id # n.id
       ELSE \E k \in 1..Len(file.items) : file.items[k] = JSONEntry(n.id, n.item)

\* C17: after every step, each hook the step fired announces a change that
\* is written in the primary file.
C17_NotifiedIsPersisted ==
    \A k \in 1..Len(notified) : Persisted(notified[k])

\* C18: a successful Add fires exactly NotifyNew on the added item, a
\* successful Upd exactly NotifyUpd on the new item with the replaced item, a
\* Del of a held id exactly NotifyDel on an item removed; a call that returns
\* an error and a Del of an absent id fire nothing.
C18_OneNotification ==
    [][/\ (res'.op = "Add" /\ res'.err = "ok")
             => \A item \in Items, newID \in IDs, io \in IOOutcomes :
                   Add(item, newID, io)
                      => /\ Len(notified') = 1
                         /\ notified'[1].hook = "new"
                         /\ notified'[1].id = res'.id
                         /\ notified'[1].item = item
       /\ (res'.op = "Upd" /\ res'.err = "ok")
             => \A item \in Items :
                   Upd(res'.id, item, "ok")
                      => \E k \in 1..Len(itemsFromFile) :
                            /\ itemsFromFile[k].ID = res'.id
                            /\ itemsFromFile'[k].Item = item
                            /\ Len(notified') = 1
                            /\ notified'[1].hook = "upd"
                            /\ notified'[1].id = res'.id
                            /\ notified'[1].item = item
                            /\ notified'[1].old = itemsFromFile[k].Item
       /\ (res'.op = "Del" /\ res'.err = "ok" /\ res'.id \in HeldIDs)
             => \E r \in HeldRecords :
                   /\ r[1] = res'.id
                   /\ Len(notified') = 1
                   /\ notified'[1].hook = "del"
                   /\ notified'[1].id = r[1]
                   /\ notified'[1].item = r[2]
       /\ (res'.op \in {"Add", "Upd", "Del"} /\ res'.err # "ok")
             => notified' = <<>>
       /\ (res'.op = "Del" /\ res'.id \notin HeldIDs)
             => notified' = <<>>]_vars

C18_Witness ==
    /\ res.op = "Upd"
    /\ res.err = "ok"
    /\ Len(notified) = 1
    /\ notified[1].hook = "upd"
    /\ notified[1].old.name # notified[1].item.name
    /\ Lookup(itemByID, res.id).item = notified[1].item

\* The file is a JSON array with an entry that has an empty id, an id of an
\* earlier entry, no item data or an invalid item.
BadFile(f) ==
    /\ f.kind = "json"
    /\ \E k \in 1..Len(f.items) :
          \/ f.items[k].id = EmptyID
          \/ \E j \in 1..(k - 1) : f.items[j].id = f.items[k].id
          \/ f.items[k].item = NilItem
          \/ Validate(f.items[k].item) # "ok"

EmptyStore ==
    /\ Find(0, NilItem) = <<>>
    /\ \A id \in IDs : Get(id).err = "notfound"
    /\ \A n \in DOMAIN indexSet : DOMAIN indexSet[n] = {}

\* C20: loading an absent or a zero-byte file is no error and yields an
\* empty store, at construction and on a reload of the staging file, and an
\* absent file exists afterwards.
C20_EmptyLoadEmptiesStore ==
    /\ []((res.op = "New" /\ res.err = "ok" /\ file.kind = "empty")
             => EmptyStore)
    /\ [][(res'.op = "Reload" /\ loadfile.kind \in {"missing", "empty"})
             => /\ res'.err = "ok"
                /\ loadfile'.kind = "empty"
                /\ EmptyStore']_vars

\* The ids of the dataset in the file f.
FileIDs(f) == {f.items[k].id : k \in 1..Len(f.items)}

\* The item of the entry with the given id in the file f.
FileItemOf(f, id) ==
    f.items[CHOOSE k \in 1..Len(f.items) : f.items[k].id = id].item

\* The notifications the reload of the staging file owes: NotifyUpd for
\* the ids held before and loaded, NotifyDel for the ids only held before,
\* NotifyNew for the ids only loaded; one each and no other.
OwedNotifications(fired) ==
    /\ Len(fired) = Cardinality(HeldIDs \cup FileIDs(loadfile))
    /\ \A id \in HeldIDs \cap FileIDs(loadfile) :
          \E k \in 1..Len(fired), r \in HeldRecords :
             /\ r[1] = id
             /\ fired[k].hook = "upd"
             /\ fired[k].id = id
             /\ fired[k].item = FileItemOf(loadfile, id)
             /\ fired[k].old = r[2]
    /\ \A id \in HeldIDs \ FileIDs(loadfile) :
          \E k \in 1..Len(fired), r \in HeldRecords :
             /\ r[1] = id
             /\ fired[k].hook = "del"
             /\ fired[k].id = id
             /\ fired[k].item = r[2]
    /\ \A id \in FileIDs(loadfile) \ HeldIDs :
          \E k \in 1..Len(fired) :
             /\ fired[k].hook = "new"
             /\ fired[k].id = id
             /\ fired[k].item = FileItemOf(loadfile, id)

\* C21: a successful reload fires exactly one NotifyUpd(old item) on the
\* new item for each id held before and loaded, one NotifyDel on the old
\* item for each id only held before, one NotifyNew on the new item for each
\* id only loaded, and nothing else.
C21_ReloadNotifications ==
    [][(res'.op = "Reload" /\ res'.err = "ok")
          => OwedNotifications(notified')]_vars

\* The store holds exactly the dataset of the file f: the sequence lists
\* its records in file order, the id map has exactly its ids, and the index
\* set has exactly the unique values its records declare.
HoldsExactly(f) ==
    /\ Len(itemsFromFile) = Len(f.items)
    /\ \A k \in 1..Len(f.items) :
          itemsFromFile[k] = FileItem(f.items[k].id, f.items[k].item)
    /\ DOMAIN itemByID = FileIDs(f)
    /\ \A id \in FileIDs(f) : itemByID[id] = FileItemOf(f, id)
    /\ \A k \in 1..Len(f.items) : \A n \in DOMAIN Keys(f.items[k].item) :
          IndexedAs(indexSet, n, Keys(f.items[k].item)[n], f.items[k].id)
    /\ \A n \in DOMAIN indexSet : \A v \in DOMAIN indexSet[n] :
          \E k \in 1..Len(f.items) :
             /\ f.items[k].id = indexSet[n][v]
             /\ n \in DOMAIN Keys(f.items[k].item)
             /\ Keys(f.items[k].item)[n] = v

\* C23: after a successful reload the sequence, the id map and the index
\* set are exactly those of the staging dataset that was loaded; nothing of
\* the previous dataset remains.
C23_ReloadReplaces ==
    [][(res'.op = "Reload" /\ res'.err = "ok") => HoldsExactly(loadfile)']_vars

\* C24: after a successful reload the primary file has the content of the
\* staging file, and a failed reload leaves the primary file as it was.
C24_PrimaryIsStaging ==
    [][res'.op = "Reload"
          => IF res'.err = "ok" THEN file' = loadfile' ELSE file' = file]_vars

\* A failed reload changes neither the sequence, the id map, the index set
\* nor the primary file, fires no notification, and leaves the watcher idle
\* with the staging file as it was.
FailedReloadContained ==
    /\ UNCHANGED <<itemsFromFile, itemByID, indexSet, file, loadfile>>
    /\ notified' = <<>>
    /\ changing' = FALSE

Polled == res'.op \in {"Poll", "Reload"}

C27_ReloadNeedsPublisher ==
    [][res'.op = "Reload" => fresh]_vars

\* The places of a call between its Lock and its deferred Unlock.
InCriticalSection == {"inside", "checked", "returning"}

\* C28: at most one goroutine is between the Lock and the Unlock of Add,
\* Upd, Del, Get or readFile, the goroutine that is there holds the mutex,
\* and a goroutine that has returned, with or without an error, does not
\* hold it.
C28_OneInCriticalSection ==
    /\ mutex \in Goroutines \cup {NoHolder}
    /\ \A g, h \in Goroutines :
          (pc[g] \in InCriticalSection /\ pc[h] \in InCriticalSection)
             => g = h
    /\ \A g \in Goroutines : (pc[g] \in InCriticalSection) <=> (mutex = g)

\* A call has returned an error, the watcher is past its readFile, and
\* another caller has taken the mutex and passed its checks.
C28_Witness ==
    \E g, h \in Callers :
        /\ pc[g] = "done"
        /\ call[g].err \in {"nil", "invalid", "duplicate", "collision", "io",
                            "notfound"}
        /\ pc[Watcher] = "finishing"
        /\ pc[h] = "checked"
        /\ mutex = h

\* C29: in every state the store can be in, the checks of Add answer
\* id-collision for a valid item that passes the uniqueness check when the
\* id generator produces the id of a held record, so that Add changes
\* nothing.
C29_HeldIDCollides ==
    \A item \in Items, newID \in HeldIDs :
        (Validate(item) = "ok" /\ CheckUniqueness(indexSet, EmptyID, item) = "ok")
            => AddChecks(item, newID) = "collision"

\* Two callers have returned from Add of valid items with the same name,
\* neither failed on the id or the file, and no reload and no other call
\* ran.
SameUniqueAdds(g, h) ==
    /\ g # h
    /\ pc[g] = "done"
    /\ pc[h] = "done"
    /\ call[g].op = "Add"
    /\ call[h].op = "Add"
    /\ call[g].item # NilItem
    /\ call[h].item # NilItem
    /\ call[g].item.name # EmptyName
    /\ call[g].item.name = call[h].item.name
    /\ \A k \in Goroutines \ {g, h} : call[k].op = "none"
    /\ {call[g].err, call[h].err} \subseteq {"ok", "duplicate"}

\* The name was taken by a record that neither of the two calls added.
TakenBefore(g, h) ==
    \E id \in IDs \ {call[g].id, call[h].id} :
        IndexedAs(indexSet, "name", call[g].item.name, id)

\* The return of a call from its critical section.
Returns(g) == pc[g] \in {"inside", "checked"} /\ pc'[g] = "returning"

\* C30: every call of Add, Upd and Del takes effect in one step, the one in
\* which it returns from its critical section, and that step is a step of
\* the call run alone on the state it found; no other step of a caller
\* changes the store. Of two Adds of the same unused name, one succeeds and
\* the other fails as a duplicate.
C30_Linearizable ==
    /\ [](\A g, h \in Callers :
            (SameUniqueAdds(g, h) /\ ~TakenBefore(g, h))
               => {call[g].err, call[h].err} = {"ok", "duplicate"})
    /\ [][\A g \in Callers :
            /\ Returns(g)
               => /\ call'[g].err = res'.err
                  /\ CASE call[g].op = "Add" ->
                            \E newID \in IDs, io \in IOOutcomes :
                               /\ res'.err = "ok" => res'.id = newID
                               /\ Add(call[g].item, newID, io)
                       [] call[g].op = "Upd" ->
                            \E io \in IOOutcomes :
                               Upd(call[g].id, call[g].item, io)
                       [] call[g].op = "Del" ->
                            \E io \in IOOutcomes : Del(call[g].id, io)
                       [] OTHER -> res'.op = "Get"
            /\ (pc'[g] # pc[g] /\ ~Returns(g))
               => UNCHANGED <<itemsFromFile, itemByID, indexSet, file>>]_vars

\* Two Adds of the same name have returned: one added the record, the other
\* was refused as a duplicate.
C30_Witness ==
    \E g, h \in Callers :
        /\ SameUniqueAdds(g, h)
        /\ call[g].err = "ok"
        /\ call[h].err = "duplicate"
        /\ IndexedAs(indexSet, "name", call[g].item.name, call[g].id)
        /\ mutex = NoHolder

\* C34: every (field, value) -> id entry of the index refers to a held
\* record of that id whose item declares that value for that field.
C34_IndexNotStale ==
    \A n \in DOMAIN indexSet :
        \A v \in DOMAIN indexSet[n] :
            \E rec \in HeldRecords :
                /\ rec[1] = indexSet[n][v]
                /\ Keys(rec[2])[n] = v

KeyConflict(f) ==
    /\ f.kind = "json"
    /\ \E j, k \in 1..Len(f.items) :
          /\ j < k
          /\ f.items[j].id # f.items[k].id
          /\ f.items[j].item # NilItem
          /\ f.items[k].item # NilItem
          /\ f.items[j].item.name = f.items[k].item.name

\* No two held records with different ids declare the same name.
NoSharedValue ==
    \A r1, r2 \in HeldRecords :
        r1[1] # r2[1] => Keys(r1[2]) # Keys(r2[2])

C39_NoEmptyID ==
    /\ [](\A rec \in HeldRecords : rec[1] # EmptyID)
    /\ [][res'.op = "New" => res'.err = "ok"]_vars

\* C40: as long as no publisher has written the staging file since the
\* watcher started, the watcher attempts no reload and the sequence, the
\* map, the index and the primary file stay as the construction left them,
\* whatever staging file lay there before.
C40_OldStagingIgnored ==
    [][published = 0
          => /\ res'.op # "Reload"
             /\ UNCHANGED <<itemsFromFile, itemByID, indexSet, file>>]_vars

\* An older staging file with a record has been polled for longer than the
\* quiescence window and is not loaded.
C40_Witness ==
    /\ published = 0
    /\ loadfile.kind = "json"
    /\ now > QuiescenceWindow + 1
    /\ nextPoll > now
    /\ res.op = "Poll"
    /\ ~changing
    /\ itemsFromFile = <<>>

\* No call and no reload is in progress or pending.
AllCompleted ==
    /\ \A g \in Callers : pc[g] \in {"idle", "done"}
    /\ pc[Watcher] = "idle"
    /\ ~changing

\* The primary file is the encoding of the sequence, record by record.
PrimaryEncodesSequence ==
    /\ file.kind \in {"json", "empty"}
    /\ file.items = [k \in 1..Len(itemsFromFile) |->
                       JSONEntry(itemsFromFile[k].ID, itemsFromFile[k].Item)]

\* C31: whenever all calls and reloads have completed, the primary file
\* encodes exactly the in-memory sequence.
C31_PrimaryFollowsMemory ==
    (Alive /\ AllCompleted) => PrimaryEncodesSequence

\* The records Find(size, nil) returns on the sequence l.
Limited(l, size) ==
    IF size > 0 /\ size < Len(l) THEN SubSeq(l, 1, size) ELSE l

\* C35: a Find that ran beside Add, Upd and Del has returned the limited
\* scan of the sequence as it was at one instant during the call.
C35_FindScansSnapshot ==
    scan.pc = "done"
        => /\ ~scan.fault
           /\ \E l \in scan.seen : scan.out = Limited(l, scan.size)

\* A NotifyNew was fired before a NotifyUpd or a NotifyDel.
NewBeforeOld(fired) ==
    \E j, k \in DOMAIN fired :
        j < k /\ fired[j].hook = "new" /\ fired[k].hook \in {"upd", "del"}

\* C32: the hooks a reload has fired never have a NotifyNew before a
\* NotifyUpd or NotifyDel; readFile replaces the list, the map and the
\* index only when it has no hook left to fire, and firing a hook leaves
\* the list, the map and the index as they were.
C32_HooksBeforeReplacement ==
    /\ [](~NewBeforeOld(loading.fired))
    /\ []((res.op = "Reload" /\ res.err = "ok") => ~NewBeforeOld(notified))
    /\ [][(pc[Watcher] = "notifying" /\ pc'[Watcher] = "returning")
            => /\ loading.pending = <<>>
               /\ notified' = loading.fired]_vars
    /\ [][Len(loading'.fired) > Len(loading.fired)
            => UNCHANGED <<itemsFromFile, itemByID, indexSet>>]_vars

\* A reload that fired a NotifyDel or NotifyUpd and a NotifyNew has
\* replaced the dataset.
C32_Witness ==
    /\ res.op = "Reload"
    /\ res.err = "ok"
    /\ \E j, k \in DOMAIN notified :
         notified[j].hook \in {"upd", "del"} /\ notified[k].hook = "new"
    /\ itemsFromFile # <<>>
    /\ pc[Watcher] = "returning"

\* C36: a goroutine that runs a hook holds the mutex. When the hook calls
\* Get, the goroutine stays in that call's Lock with the mutex held, and no
\* other goroutine passes a Lock or starts a reload; a hook that calls
\* Find can take its next step and return.
C36_HooksUnderLock ==
    /\ [](\A g \in Goroutines :
            pc[g] \in {"hook", "hookfind", "nested"} => mutex = g)
    /\ [][\A g \in Goroutines :
            pc[g] = "nested"
                => /\ pc'[g] = "nested"
                   /\ mutex' = g
                   /\ \A h \in Goroutines \ {g} :
                        pc[h] \in {"idle", "locking"}
                            => pc'[h] \in {"idle", "locking"}]_vars
    /\ [](\A g \in Goroutines :
            pc[g] = "hookfind"
                => ENABLED (HookFind(g) /\ UNCHANGED <<timers, loading>>))

\* A hook of one goroutine is in Get, a second goroutine waits in its Lock,
\* and the watcher has a change to load.
C36_Witness ==
    /\ \E g, h \in Goroutines :
         /\ g # h
         /\ pc[g] = "nested"
         /\ pc[h] = "locking"
    /\ changing
    /\ pc[Watcher] = "idle"

\* C33: once a publisher has written the staging file after the watcher's
\* start, a reload attempt reads the content it wrote, unless the file is
\* written again or removed before; the write may come while a reload
\* attempt is in progress.
C33_ModificationReloaded ==
    \A f \in WatchFiles, n \in 1..MaxWrites :
        (Alive /\ watching /\ fresh /\ modTime > 0
            /\ loadfile = f /\ published = n)
          ~> \/ ~fresh /\ loading.file = f /\ res.op = "Reload"
             \/ published # n
             \/ loadfile # f

\* The staging file was written while a reload attempt was between its
\* readFile and its end.
C33_Witness ==
    /\ fresh
    /\ modTime > 0
    /\ pc[Watcher] = "finishing"
    /\ loadfile # loading.file
    /\ loadfile # MissingFile

====
